---------------------------- MODULE Spec2Model ----------------------------
(***************************************************************************)
(* Model of the quick-crop image tool: the Index page (file selection,     *)
(* preview, open flag), the ImageCropper component (crop state, zoom and   *)
(* rotation controls, the asynchronous getCroppedImg pipeline) and the     *)
(* canvas rendering that getCroppedImg performs.                           *)
(*                                                                         *)
(* The repository holds two versions of the component: ImageCropper.tsx    *)
(* (impl = "rewritten") and a second file with the same component          *)
(* (impl = "fixed", after its own comment "The fixed implementation").     *)
(*                                                                         *)
(* Units: zoom is kept in tenths (zoom = 10 is the factor 1.0); geometry   *)
(* is kept in half pixels wherever the code divides a size by two.         *)
(***************************************************************************)
EXTENDS Integers, Sequences, FiniteSets, TLC

VARIABLES
    impl,               \* which version of the component is mounted
    maxZoom,            \* prop maxZoom, in tenths
    cropShape,          \* prop cropShape
    selectedFile,       \* Index state (the component's file prop)
    previewImage,       \* Index state
    cropperOpen,        \* Index state (the component's open prop)
    src,                \* ImageCropper state: object URL of file
    crop,               \* ImageCropper state: pan offset
    zoom,               \* ImageCropper state, in tenths
    rotation,           \* ImageCropper state, degrees
    croppedAreaPixels,  \* ImageCropper state: rectangle or null
    inflight,           \* the suspended invocations of getCroppedImg
    applied,            \* number of Apply clicks so far
    last,               \* the latest step: its kind and the callbacks it made
    surface,            \* result of one rendering (rendering specification)
    areaOfSrc           \* croppedAreaPixels was reported while the viewport showed src

vars == <<impl, maxZoom, cropShape, selectedFile, previewImage, cropperOpen,
          src, crop, zoom, rotation, croppedAreaPixels, inflight, applied,
          last, surface, areaOfSrc>>

(***************************************************************************)
(* Bounds of the exploration.                                              *)
(***************************************************************************)
MaxApply == 1
MaxTurns == 1

(***************************************************************************)
(* Values.                                                                 *)
(***************************************************************************)
NULL == [kind |-> "null"]

DefaultMaxZoom == 100
MaxFileSize == 5242880

Impls == {"rewritten", "fixed"}

\* Files the user may pick: name, declared type, size, and the bytes (a
\* picked file's bytes are named by the raster they decode to; the bytes of
\* an encoded canvas hold the format and what was drawn).
PickableFiles ==
    { [kind |-> "file", name |-> "avatar.png", type |-> "image/png",
       size |-> 1000, bytes |-> [raster |-> "avatar"]],
      [kind |-> "file", name |-> "", type |-> "image/jpeg",
       size |-> 2000, bytes |-> [raster |-> "unnamed"]],
      [kind |-> "file", name |-> "notes.txt", type |-> "text/plain",
       size |-> 10, bytes |-> [raster |-> "none"]],
      [kind |-> "file", name |-> "huge.png", type |-> "image/png",
       size |-> 6000000, bytes |-> [raster |-> "huge"]] }

\* file.type.startsWith('image/')
IsImageType(t) == t \in {"image/png", "image/jpeg", "image/gif", "image/webp"}

\* Rectangles the viewport may report through onCropComplete.
ReportedAreas ==
    { [kind |-> "area", x |-> 0, y |-> 0, width |-> 2, height |-> 2],
      [kind |-> "area", x |-> 1, y |-> 0, width |-> 1, height |-> 1] }

ReportedCrops == { [x |-> 0, y |-> 0], [x |-> 5, y |-> 0] }

InitialCrop == [x |-> 0, y |-> 0]


NoSrc == [kind |-> "empty"]

\* The record of a step: a user-interface event, or a step of getCroppedImg
\* with the callbacks it made.
UiStep == [kind |-> "ui", calls |-> << >>]
PipelineStep(kind, made) == [kind |-> kind, calls |-> made]

\* URL.createObjectURL(file): a URL that resolves to the file's bytes.
createObjectURL(f) == [kind |-> "blob", file |-> f]

Min(a, b) == IF a < b THEN a ELSE b
Max(a, b) == IF a > b THEN a ELSE b

(***************************************************************************)
(* Index page.                                                             *)
(***************************************************************************)

\* useEffect on [file]: a non-null file gets a fresh object URL as src.
FileEffect(f, old) == IF f # NULL THEN createObjectURL(f) ELSE old

\* Nothing but setSrc runs when the file changes: the rectangle stays, and
\* it is the rectangle of the source shown only if the source is the same.
StillOfSrc(newSrc) == areaOfSrc /\ newSrc = src

\* The file input's change handler.  The input lies outside the modal
\* dialog, so it is reachable only while the dialog is closed.
handleFileChange(f) ==
    /\ ~cropperOpen
    /\ IF ~IsImageType(f.type) \/ f.size > MaxFileSize
       THEN UNCHANGED <<selectedFile, cropperOpen, src>>
       ELSE /\ selectedFile' = f
            /\ cropperOpen' = TRUE
            /\ src' = FileEffect(f, src)
    /\ areaOfSrc' = StillOfSrc(src')
    /\ UNCHANGED <<impl, maxZoom, cropShape, previewImage, crop, zoom,
                   rotation, croppedAreaPixels, inflight, applied,
                   surface>>
    /\ last' = UiStep

\* The Edit button of the preview card.
EditClick ==
    /\ ~cropperOpen
    /\ previewImage # NULL
    /\ cropperOpen' = TRUE
    /\ UNCHANGED <<impl, maxZoom, cropShape, selectedFile, previewImage, src,
                   crop, zoom, rotation, croppedAreaPixels, inflight, applied,
                   surface, areaOfSrc>>
    /\ last' = UiStep

(***************************************************************************)
(* ImageCropper: viewport callbacks and controls.                          *)
(***************************************************************************)
ViewportShown == cropperOpen /\ src # NoSrc

onCropChange(c) ==
    /\ ViewportShown
    /\ crop' = c
    /\ UNCHANGED <<impl, maxZoom, cropShape, selectedFile, previewImage,
                   cropperOpen, src, zoom, rotation, croppedAreaPixels, inflight, applied,
                   surface, areaOfSrc>>
    /\ last' = UiStep

onCropComplete(a) ==
    /\ ViewportShown
    /\ croppedAreaPixels' = a
    /\ areaOfSrc' = TRUE
    /\ UNCHANGED <<impl, maxZoom, cropShape, selectedFile, previewImage,
                   cropperOpen, src, crop, zoom, rotation, inflight, applied,
                   surface>>
    /\ last' = UiStep

\* setRotation(prev => prev - 90)
RotatedLeft(r) == r - 90

\* setRotation(prev => prev + 90)
RotatedRight(r) == r + 90

RotationInBounds(r) == r >= -(90 * MaxTurns) /\ r <= 90 * MaxTurns

handleRotateLeft ==
    /\ cropperOpen
    /\ RotationInBounds(RotatedLeft(rotation))
    /\ rotation' = RotatedLeft(rotation)
    /\ UNCHANGED <<impl, maxZoom, cropShape, selectedFile, previewImage,
                   cropperOpen, src, crop, zoom, croppedAreaPixels, inflight, applied,
                   surface, areaOfSrc>>
    /\ last' = UiStep

handleRotateRight ==
    /\ cropperOpen
    /\ RotationInBounds(RotatedRight(rotation))
    /\ rotation' = RotatedRight(rotation)
    /\ UNCHANGED <<impl, maxZoom, cropShape, selectedFile, previewImage,
                   cropperOpen, src, crop, zoom, croppedAreaPixels, inflight, applied,
                   surface, areaOfSrc>>
    /\ last' = UiStep

\* Cancel: onOpenChange(false) and nothing else.
handleClose ==
    /\ cropperOpen
    /\ cropperOpen' = FALSE
    /\ UNCHANGED <<impl, maxZoom, cropShape, selectedFile, previewImage, src,
                   crop, zoom, rotation, croppedAreaPixels, inflight, applied,
                   surface, areaOfSrc>>
    /\ last' = UiStep

\* The dialog's own close (escape, outside click, close button) is wired to
\* the same onOpenChange.
DialogDismiss ==
    /\ cropperOpen
    /\ cropperOpen' = FALSE
    /\ UNCHANGED <<impl, maxZoom, cropShape, selectedFile, previewImage, src,
                   crop, zoom, rotation, croppedAreaPixels, inflight, applied,
                   surface, areaOfSrc>>
    /\ last' = UiStep

(***************************************************************************)
(* Zoom controls (tenths).                                                 *)
(***************************************************************************)
MinZoom == 10

\* The viewport is given no zoom limits, so it reports zoom factors within
\* its own limits.
ViewportMinZoom == 10
ViewportMaxZoom == 30

\* Zoom-out button: setZoom(Math.max(1, zoom - 0.1))
ZoomOutValue(z) == Max(MinZoom, z - 1)

\* Zoom-in button: setZoom(Math.min(maxZoom, zoom + 0.1))
ZoomInValue(z, mz) == Min(mz, z + 1)

\* <input type="range" min={1} max={maxZoom}>: the element holds a value
\* within [min, max] (min when max < min), which the handler passes on:
\* setZoom(Number(e.target.value))
SliderValue(v, mz) == IF mz < MinZoom THEN MinZoom ELSE Max(MinZoom, Min(mz, v))

\* onZoomChange={setZoom}
ViewportZoomValue(z) == z

ZoomOutClick ==
    /\ cropperOpen
    /\ zoom' = ZoomOutValue(zoom)
    /\ UNCHANGED <<impl, maxZoom, cropShape, selectedFile, previewImage,
                   cropperOpen, src, crop, rotation, croppedAreaPixels, inflight, applied,
                   surface, areaOfSrc>>
    /\ last' = UiStep

ZoomInClick ==
    /\ cropperOpen
    /\ zoom' = ZoomInValue(zoom, maxZoom)
    /\ UNCHANGED <<impl, maxZoom, cropShape, selectedFile, previewImage,
                   cropperOpen, src, crop, rotation, croppedAreaPixels, inflight, applied,
                   surface, areaOfSrc>>
    /\ last' = UiStep

SliderChange(v) ==
    /\ cropperOpen
    /\ zoom' = SliderValue(v, maxZoom)
    /\ UNCHANGED <<impl, maxZoom, cropShape, selectedFile, previewImage,
                   cropperOpen, src, crop, rotation, croppedAreaPixels, inflight, applied,
                   surface, areaOfSrc>>
    /\ last' = UiStep

onZoomChange(z) ==
    /\ ViewportShown
    /\ zoom' = ViewportZoomValue(z)
    /\ UNCHANGED <<impl, maxZoom, cropShape, selectedFile, previewImage,
                   cropperOpen, src, crop, rotation, croppedAreaPixels, inflight, applied,
                   surface, areaOfSrc>>
    /\ last' = UiStep

(***************************************************************************)
(* getCroppedImg: the asynchronous pipeline.  An invocation is a record    *)
(* with its position (pc), the values its closure captured (env) and what  *)
(* it has computed so far.                                                 *)
(***************************************************************************)
Positions == 1..Len(inflight)

\* The sequence without its k-th element.
Remove(seq, k) == [j \in 1..(Len(seq) - 1) |-> IF j < k THEN seq[j] ELSE seq[j + 1]]

\* if (!src || !croppedAreaPixels || !file) return;
PreconditionsHold(s, a, f) == s # NoSrc /\ a # NULL /\ f # NULL

\* The state the component function closed over in the render whose Apply
\* button was clicked.
Closure ==
    [src |-> src, croppedAreaPixels |-> croppedAreaPixels,
     file |-> selectedFile, rotation |-> rotation, cropShape |-> cropShape]

\* (mutant) the rendering code reading the component's current state.
RenderInputsLive(rec) == Closure

\* What the rendering code reads after the image-load await: the values of
\* its closure.
RenderInputs(rec) == rec.env

\* createImage(url): the decoded raster of the bytes behind the URL.
createImage(url) == [kind |-> "image", of |-> url.file.bytes]

\* The surface the two drawImage calls and the mask leave in the output
\* canvas: determined by the image, the rectangle, the rotation and the
\* shape (RenderSurface computes its pixels).
CroppedCanvas(image, e) ==
    [image |-> image, area |-> e.croppedAreaPixels,
     rotation |-> e.rotation, shape |-> e.cropShape]

\* file.type || "image/jpeg"
TypeOrDefault(f) == IF f.type # "" THEN f.type ELSE "image/jpeg"

\* The type handed to toDataURL.
RequestedEncoding(im, f) ==
    IF im = "rewritten" THEN TypeOrDefault(f) ELSE "image/jpeg"

\* canvas.toDataURL(type): an unsupported type is encoded as PNG.
EncoderType(t) ==
    IF t \in {"image/png", "image/jpeg", "image/webp"} THEN t ELSE "image/png"

Base64(bytes) == <<"base64", bytes>>
FromBase64(text) == text[2]

toDataURL(canvas, t) ==
    [kind |-> "dataurl", mime |-> EncoderType(t),
     data |-> Base64([format |-> EncoderType(t), pixels |-> canvas])]

\* (await fetch(dataUrl)).blob()
BlobOf(url) == [type |-> url.mime, bytes |-> FromBase64(url.data)]

\* The name given to the file wrapper.
FileName(im, f) ==
    IF im = "rewritten"
    THEN IF f.name # "" THEN "cropped-" \o f.name ELSE "cropped-image.jpg"
    ELSE "cropped-" \o f.name

\* new File([blob], fileName, { type })
NewFile(blob, name, type) ==
    [kind |-> "file", name |-> name, type |-> type, bytes |-> blob.bytes]

\* Apply button: the synchronous head of getCroppedImg, up to the first await.
getCroppedImg ==
    /\ cropperOpen
    /\ applied' = applied + 1
    /\ IF PreconditionsHold(src, croppedAreaPixels, selectedFile)
       THEN /\ inflight' = Append(inflight,
                   [pc |-> "load", env |-> Closure,
                    trig |-> [croppedAreaPixels |-> croppedAreaPixels,
                              file |-> selectedFile, rotation |-> rotation,
                              cropShape |-> cropShape]])
            /\ last' = PipelineStep("started", << >>)
       ELSE /\ inflight' = inflight
            /\ last' = PipelineStep("noop", << >>)
    /\ UNCHANGED <<impl, maxZoom, cropShape, selectedFile, previewImage,
                   cropperOpen, src, crop, zoom, rotation, croppedAreaPixels,
                   surface, areaOfSrc>>

\* An Apply click, while fewer than limit clicks have been explored.
ApplyClick(limit) ==
    /\ applied < limit
    /\ getCroppedImg

\* (mutant) a catch block that also closes the view.
CaughtClosing(k) ==
    /\ inflight' = Remove(inflight, k)
    /\ last' = PipelineStep("failed", << >>)
    /\ cropperOpen' = FALSE
    /\ UNCHANGED <<impl, maxZoom, cropShape, selectedFile, previewImage,
                   src, crop, zoom, rotation, croppedAreaPixels,
                   applied, surface, areaOfSrc>>

\* The catch block: console.error and a normal return.
Caught(k) ==
    /\ inflight' = Remove(inflight, k)
    /\ last' = PipelineStep("failed", << >>)
    /\ UNCHANGED <<impl, maxZoom, cropShape, selectedFile, previewImage,
                   cropperOpen, src, crop, zoom, rotation, croppedAreaPixels,
                   applied,
                   surface, areaOfSrc>>

\* The image loads: both canvases are drawn, the output is encoded and the
\* fetch of the data URL is started.
ImageLoaded(k) ==
    /\ inflight[k].pc = "load"
    /\ LET e == RenderInputs(inflight[k])
           image == createImage(inflight[k].env.src)
           requested == RequestedEncoding(impl, e.file)
           base64Image == toDataURL(CroppedCanvas(image, e), requested)
       IN  inflight' = [inflight EXCEPT ![k] =
                     [pc |-> "fetch", file |-> inflight[k].env.file,
                      trig |-> inflight[k].trig,
                      requested |-> requested, base64Image |-> base64Image]]
    /\ last' = PipelineStep("progress", << >>)
    /\ UNCHANGED <<impl, maxZoom, cropShape, selectedFile, previewImage,
                   cropperOpen, src, crop, zoom, rotation, croppedAreaPixels,
                   applied,
                   surface, areaOfSrc>>

\* The image's error event rejects createImage.
ImageError(k) ==
    /\ inflight[k].pc = "load"
    /\ Caught(k)

\* The image loads but getContext("2d") returns null for one of the canvases.
ContextUnavailable(k) ==
    /\ inflight[k].pc = "load"
    /\ Caught(k)

FetchResolved(k) ==
    /\ inflight[k].pc = "fetch"
    /\ inflight' = [inflight EXCEPT ![k].pc = "blob"]
    /\ last' = PipelineStep("progress", << >>)
    /\ UNCHANGED <<impl, maxZoom, cropShape, selectedFile, previewImage,
                   cropperOpen, src, crop, zoom, rotation, croppedAreaPixels,
                   applied,
                   surface, areaOfSrc>>

FetchRejected(k) ==
    /\ inflight[k].pc = "fetch"
    /\ Caught(k)

BlobRejected(k) ==
    /\ inflight[k].pc = "blob"
    /\ Caught(k)

\* (mutant) the view closed before the result is delivered.
CloseThenDeliver(rec, result) ==
    << [fn |-> "onOpenChange", arg |-> FALSE, open |-> cropperOpen],
       [fn |-> "onSuccess", arg |-> result, open |-> cropperOpen,
        trig |-> rec.trig, requested |-> rec.requested] >>

\* The callbacks of the success path, in the order they are called; each
\* entry also records the invocation it comes from and whether the view was
\* open.
SuccessCalls(rec, result) ==
    << [fn |-> "onSuccess", arg |-> result, open |-> cropperOpen,
        trig |-> rec.trig, requested |-> rec.requested],
       [fn |-> "onOpenChange", arg |-> FALSE, open |-> cropperOpen] >>

\* The blob arrives: the file is built, onSuccess (Index.handleCropSuccess)
\* and onOpenChange(false) (Index.setCropperOpen) are called.
BlobResolved(k) ==
    /\ inflight[k].pc = "blob"
    /\ LET rec == inflight[k]
           blob == BlobOf(rec.base64Image)
           croppedFile == NewFile(blob, FileName(impl, rec.file),
                                  TypeOrDefault(rec.file))
           result == [base64 |-> rec.base64Image, file |-> croppedFile]
       IN  /\ last' = PipelineStep("done", SuccessCalls(rec, result))
           \* handleCropSuccess
           /\ previewImage' = result.base64
           /\ selectedFile' = result.file
           /\ src' = FileEffect(result.file, src)
    /\ inflight' = Remove(inflight, k)
    \* onOpenChange(false)
    /\ cropperOpen' = FALSE
    /\ areaOfSrc' = StillOfSrc(src')
    /\ UNCHANGED <<impl, maxZoom, cropShape, crop, zoom, rotation,
                   croppedAreaPixels, applied, surface>>

(***************************************************************************)
(* The page with the component mounted: selection, gestures, Apply and the *)
(* asynchronous steps of every invocation.                                 *)
(***************************************************************************)
NoSurface == [kind |-> "none"]

Init ==
    /\ impl \in Impls
    /\ maxZoom = DefaultMaxZoom
    /\ cropShape = "round"
    /\ selectedFile = NULL
    /\ previewImage = NULL
    /\ cropperOpen = FALSE
    /\ src = NoSrc
    /\ crop = InitialCrop
    /\ zoom = MinZoom
    /\ rotation = 0
    /\ croppedAreaPixels = NULL
    /\ inflight = << >>
    /\ applied = 0
    /\ last = [kind |-> "none", calls |-> << >>]
    /\ surface = NoSurface
    /\ areaOfSrc = FALSE

\* What the user and the viewport do, apart from Apply.
Gestures ==
    \/ \E f \in PickableFiles : handleFileChange(f)
    \/ EditClick
    \/ \E a \in ReportedAreas : onCropComplete(a)
    \/ handleRotateLeft
    \/ handleRotateRight
    \/ handleClose
    \/ DialogDismiss

\* The asynchronous continuations of the suspended invocations.
PipelineSteps ==
    \/ \E k \in Positions : ImageLoaded(k)
    \/ \E k \in Positions : ImageError(k)
    \/ \E k \in Positions : ContextUnavailable(k)
    \/ \E k \in Positions : FetchResolved(k)
    \/ \E k \in Positions : FetchRejected(k)
    \/ \E k \in Positions : BlobResolved(k)
    \/ \E k \in Positions : BlobRejected(k)

Next ==
    \/ Gestures
    \/ ApplyClick(MaxApply)
    \/ PipelineSteps

Spec == Init /\ [][Next]_vars

\* The same page with one more Apply click explored, so that an Apply can be
\* clicked again while earlier invocations are suspended.
NextReentrant ==
    \/ Gestures
    \/ ApplyClick(MaxApply + 1)
    \/ PipelineSteps

SpecReentrant == Init /\ [][NextReentrant]_vars

(***************************************************************************)
(* Claims about the pipeline's control flow.                               *)
(***************************************************************************)

\* C1: a step of getCroppedImg that ends an invocation without completing it
\* (a failed precondition, or a failure caught by the catch block) makes no
\* callback (neither onSuccess nor onOpenChange), leaves the view's open
\* flag, the crop state and the page's state unchanged, and ends the
\* invocation normally: it is no longer suspended and nothing else changes.
C1_AbortedApplyHasNoEffect ==
    [][ last'.kind \in {"noop", "failed"} =>
          /\ last'.calls = << >>
          /\ UNCHANGED <<cropperOpen, crop, zoom, rotation, croppedAreaPixels,
                         previewImage, selectedFile, src>>
          /\ Len(inflight') = Len(inflight) - (IF last'.kind = "failed" THEN 1 ELSE 0)
      ]_vars

\* An Apply has failed after it started, and the view is still open with the
\* rectangle and a rotation in place.
C1_Witness ==
    /\ last.kind = "failed"
    /\ cropperOpen
    /\ croppedAreaPixels # NULL
    /\ rotation # 0

\* C2: a step that completes an Apply makes exactly two callbacks, in this
\* order: onSuccess with one result holding the payload and a file whose
\* bytes are the payload's bytes, then onOpenChange(false); the page shows
\* that result and the view is closed; and no step calls onOpenChange
\* without having called onSuccess before it.
C2_DeliverThenClose ==
    /\ last.kind = "done" =>
          /\ Len(last.calls) = 2
          /\ last.calls[1].fn = "onSuccess"
          /\ last.calls[2].fn = "onOpenChange"
          /\ last.calls[2].arg = FALSE
          /\ last.calls[1].arg.base64.kind = "dataurl"
          /\ last.calls[1].arg.file.kind = "file"
          /\ last.calls[1].arg.file.bytes = FromBase64(last.calls[1].arg.base64.data)
          /\ previewImage = last.calls[1].arg.base64
          /\ selectedFile = last.calls[1].arg.file
          /\ ~cropperOpen
    /\ \A j \in 1..Len(last.calls) :
          last.calls[j].fn = "onOpenChange" =>
              /\ j > 1
              /\ last.calls[j - 1].fn = "onSuccess"
    /\ last.kind # "done" => last.calls = << >>

C2_Witness ==
    /\ last.kind = "done"
    /\ last.calls[1].arg.file.name = "cropped-avatar.png"

\* C3: at most one invocation of getCroppedImg is suspended at any time.
C3_AtMostOneInFlight == Len(inflight) <= 1

\* C4: the surface an Apply delivers is the one drawn from the image of the
\* file, the rectangle, the rotation and the shape that were current when
\* Apply was clicked, whatever happened while it was suspended.
C4_SnapshotAtTrigger ==
    last.kind = "done" =>
        LET call == last.calls[1]
            bytes == FromBase64(call.arg.base64.data)
        IN  bytes.pixels =
                [image |-> [kind |-> "image", of |-> call.trig.file.bytes],
                 area |-> call.trig.croppedAreaPixels,
                 rotation |-> call.trig.rotation,
                 shape |-> call.trig.cropShape]

\* An Apply has delivered although the rotation and the rectangle were
\* changed while it was suspended.
C4_Witness ==
    /\ last.kind = "done"
    /\ last.calls[1].trig.rotation # rotation
    /\ last.calls[1].trig.croppedAreaPixels # croppedAreaPixels

\* C10: every delivered file is named "cropped-" followed by the source
\* file's name, or "cropped-image.jpg" when the source file has no name.
C10_FileName ==
    last.kind = "done" =>
        LET call == last.calls[1]
        IN  call.arg.file.name =
                IF call.trig.file.name # ""
                THEN "cropped-" \o call.trig.file.name
                ELSE "cropped-image.jpg"

\* C5: as long as no Apply has been clicked, nothing is delivered, and
\* whenever the view opens (the first time, or again after Cancel) the crop
\* state is the initial one: offset (0,0), zoom 1, rotation 0, no rectangle.
C5_CancelDiscardsState ==
    [][ applied = 0 =>
          /\ previewImage' = NULL
          /\ (~cropperOpen /\ cropperOpen') =>
                /\ crop' = InitialCrop
                /\ zoom' = MinZoom
                /\ rotation' = 0
                /\ croppedAreaPixels' = NULL
      ]_vars

(***************************************************************************)
(* The view and its controls for a configured maxZoom, without the         *)
(* pipeline: selection, pan, zoom, rotation, Cancel.                       *)
(***************************************************************************)
ConfiguredMaxZooms == {20, DefaultMaxZoom}

\* Values set on the slider, in tenths (150 is the slider set to 15).
SliderRequests == {0, 10, 15, 55, 100, 150}

InitView ==
    /\ impl \in Impls
    /\ maxZoom \in ConfiguredMaxZooms
    /\ cropShape = "round"
    /\ selectedFile = NULL
    /\ previewImage = NULL
    /\ cropperOpen = FALSE
    /\ src = NoSrc
    /\ crop = InitialCrop
    /\ zoom = MinZoom
    /\ rotation = 0
    /\ croppedAreaPixels = NULL
    /\ inflight = << >>
    /\ applied = 0
    /\ last = [kind |-> "none", calls |-> << >>]
    /\ surface = NoSurface
    /\ areaOfSrc = FALSE

NextView ==
    \/ \E f \in PickableFiles : handleFileChange(f)
    \/ \E c \in ReportedCrops : onCropChange(c)
    \/ \E z \in ViewportMinZoom..ViewportMaxZoom : onZoomChange(z)
    \/ ZoomOutClick
    \/ ZoomInClick
    \/ \E v \in SliderRequests : SliderChange(v)
    \/ handleRotateRight
    \/ handleClose

SpecView == InitView /\ [][NextView]_vars

\* C6: the zoom factor is within [1, maxZoom] in every reachable state, for
\* every configured maxZoom.
C6_ZoomWithinLimits == zoom >= MinZoom /\ zoom <= maxZoom

(***************************************************************************)
(* Rendering: what the canvas calls of getCroppedImg leave in the output   *)
(* surface.  A source pixel is named by its coordinates <<x, y>>; a        *)
(* surface pixel is the set of source pixels that contribute to it, Blank  *)
(* standing for transparency.  A pixel drawn on the pixel grid has one     *)
(* contributor; a draw that is offset by half a pixel is resampled, and    *)
(* each destination pixel then takes from every pixel its area overlaps.   *)
(* Coordinates are doubled, so that the halves the code computes           *)
(* (image.width / 2) stay integral: pixel i spans [2i, 2i + 2].            *)
(***************************************************************************)
MaxDim == 5

Blank == <<-1, -1>>

\* The indices of the pixels that the unit interval centred at the doubled
\* coordinate c overlaps.
Overlap(c) == IF c % 2 = 1 THEN {(c - 1) \div 2} ELSE {(c \div 2) - 1, c \div 2}

\* rotation in quarter turns, 0..3 ((rotation * Math.PI) / 180)
Quarter(r) == (r \div 90) % 4

\* ctx.rotate by q quarter turns: (x, y) -> (x cos - y sin, x sin + y cos)
Rot(q, p) ==
    CASE q = 0 -> p
      [] q = 1 -> <<-p[2], p[1]>>
      [] q = 2 -> <<-p[1], -p[2]>>
      [] q = 3 -> <<p[2], -p[1]>>

InverseRot(q, p) == Rot((4 - q) % 4, p)

\* The pixel of the W x H image at (x, y), or nothing outside it.
SourcePixel(W, H, x, y) ==
    IF x >= 0 /\ x < W /\ y >= 0 /\ y < H THEN <<x, y>> ELSE Blank

\* --- ImageCropper.tsx ----------------------------------------------------

\* (mutant) the intermediate canvas as large as the larger dimension only.
IntermediateSideOfLargerDimension(W, H) == Max(W, H)

\* const maxSize = Math.max(image.width, image.height) * 2
IntermediateSide(W, H) == Max(W, H) * 2

\* Pixel (u, v) of the intermediate canvas after
\* translate(centerX, centerY); rotate; translate(-width/2, -height/2);
\* drawImage(image, 0, 0).
IntermediatePixel(W, H, q, u, v) ==
    LET S == IntermediateSide(W, H)
        back == InverseRot(q, <<2 * u + 1 - S, 2 * v + 1 - S>>)
    IN  IF u < 0 \/ u >= S \/ v < 0 \/ v >= S
        THEN {Blank}
        ELSE { SourcePixel(W, H, x, y) :
                 x \in Overlap(back[1] + W), y \in Overlap(back[2] + H) }

\* cropX = centerX - image.width / 2 + croppedAreaPixels.x (doubled), and
\* the same for cropY.
CropOrigin(W, H, a) ==
    <<IntermediateSide(W, H) - W + 2 * a.x, IntermediateSide(W, H) - H + 2 * a.y>>

\* Pixel (i, j) of the output canvas after
\* drawImage(canvas, cropX, cropY, width, height, 0, 0, width, height).
CroppedPixel(W, H, a, q, i, j) ==
    LET o == CropOrigin(W, H, a)
    IN  UNION { IntermediatePixel(W, H, q, u, v) :
                  u \in Overlap(o[1] + 2 * i + 1), v \in Overlap(o[2] + 2 * j + 1) }

\* --- the second version of the component ---------------------------------

\* canvas.width = maxWidth, canvas.height = maxHeight: the bounding box of
\* the rotated rectangle.
RotatedBox(a, q) ==
    IF q % 2 = 0 THEN <<a.width, a.height>> ELSE <<a.height, a.width>>

\* Pixel (u, v) of the first canvas after
\* translate(canvas.width/2, canvas.height/2); rotate;
\* translate(-width/2, -height/2); drawImage(image, x, y, w, h, 0, 0, w, h).
RotatedCropPixel(W, H, a, q, u, v) ==
    LET box == RotatedBox(a, q)
        back == InverseRot(q, <<2 * u + 1 - box[1], 2 * v + 1 - box[2]>>)
    IN  IF u < 0 \/ u >= box[1] \/ v < 0 \/ v >= box[2]
        THEN {Blank}
        ELSE { IF x >= 0 /\ x < a.width /\ y >= 0 /\ y < a.height
               THEN SourcePixel(W, H, a.x + x, a.y + y)
               ELSE Blank :
                 x \in Overlap(back[1] + a.width),
                 y \in Overlap(back[2] + a.height) }

\* Pixel (i, j) of the final canvas after
\* drawImage(canvas, (canvas.width - w) / 2, (canvas.height - h) / 2,
\*           w, h, 0, 0, w, h).
FinalPixel(W, H, a, q, i, j) ==
    LET box == RotatedBox(a, q)
    IN  UNION { RotatedCropPixel(W, H, a, q, u, v) :
                  u \in Overlap(box[1] - a.width + 2 * i + 1),
                  v \in Overlap(box[2] - a.height + 2 * j + 1) }

\* --- both versions -------------------------------------------------------

\* (mutant) the output sized like the rotated bounding box.
OutputSizeRotated(a, q) ==
    [width |-> RotatedBox(a, q)[1], height |-> RotatedBox(a, q)[2]]

\* croppedCanvas.width = croppedAreaPixels.width; height the same.
OutputSize(a, q) == [width |-> a.width, height |-> a.height]

\* The output pixel before the mask.
UnmaskedPixel(im, W, H, a, q, i, j) ==
    IF im = "rewritten"
    THEN CroppedPixel(W, H, a, q, i, j)
    ELSE FinalPixel(W, H, a, q, i, j)

\* (mutant) the radius taken from the larger side.
MaskRadiusOfLargerSide(w, h) == Max(w, h)

\* Math.min(canvas.width, canvas.height) / 2, doubled.
MaskRadius(w, h) == Min(w, h)

\* Distance (doubled) along one axis from the doubled centre c to the
\* nearest and to the farthest point of pixel i.
NearAlong(i, c) ==
    IF c < 2 * i THEN 2 * i - c ELSE IF c > 2 * i + 2 THEN c - (2 * i + 2) ELSE 0

FarAlong(i, c) == Max(c - 2 * i, 2 * i + 2 - c)

\* How much of pixel (i, j) the filled arc(width/2, height/2, radius) covers.
MaskCoverage(w, h, i, j) ==
    LET r == MaskRadius(w, h)
        near == NearAlong(i, w) * NearAlong(i, w) + NearAlong(j, h) * NearAlong(j, h)
        far == FarAlong(i, w) * FarAlong(i, w) + FarAlong(j, h) * FarAlong(j, h)
    IN  IF far <= r * r THEN "full"
        ELSE IF near >= r * r THEN "none"
        ELSE "partial"

\* globalCompositeOperation = "destination-in"; arc; fill - for "round" only.
MaskedPixel(shape, w, h, i, j, pixel) ==
    IF shape # "round" THEN pixel
    ELSE CASE MaskCoverage(w, h, i, j) = "full" -> pixel
           [] MaskCoverage(w, h, i, j) = "none" -> {Blank}
           [] OTHER -> pixel \cup {Blank}

\* The output surface of getCroppedImg.
RenderSurface(im, W, H, a, r, shape) ==
    LET size == OutputSize(a, Quarter(r))
    IN  [kind |-> "surface", width |-> size.width, height |-> size.height,
         px |-> [c \in (0..(size.width - 1)) \X (0..(size.height - 1)) |->
                    MaskedPixel(shape, size.width, size.height, c[1], c[2],
                        UnmaskedPixel(im, W, H, a, Quarter(r), c[1], c[2]))]]

(***************************************************************************)
(* One rendering: the view is open on a W x H image, the viewport has      *)
(* reported a rectangle, the user has rotated, and Apply renders.          *)
(***************************************************************************)
SizedFile(W, H) ==
    [kind |-> "file", name |-> "photo.png", type |-> "image/png",
     size |-> 1000, bytes |-> [raster |-> [w |-> W, h |-> H]]]

ImageWidth(f) == f.bytes.raster.w
ImageHeight(f) == f.bytes.raster.h

\* Rectangles with integer corners inside the square that holds the image
\* under every rotation.
AreasWithin(side) ==
    { [kind |-> "area", x |-> x, y |-> y, width |-> w, height |-> h] :
        x \in 0..(side - 1), y \in 0..(side - 1), w \in 1..side, h \in 1..side }

InitRender ==
    /\ impl \in Impls
    /\ maxZoom = DefaultMaxZoom
    /\ cropShape \in {"rect", "round"}
    /\ \E W \in 1..MaxDim, H \in 1..MaxDim :
          /\ selectedFile = SizedFile(W, H)
          /\ croppedAreaPixels \in
                { a \in AreasWithin(Max(W, H)) :
                    a.x + a.width <= Max(W, H) /\ a.y + a.height <= Max(W, H) }
    /\ src = createObjectURL(selectedFile)
    /\ previewImage = NULL
    /\ cropperOpen = TRUE
    /\ crop = InitialCrop
    /\ zoom \in {MinZoom, ViewportMaxZoom}
    /\ rotation \in { 90 * t : t \in (-MaxTurns)..MaxTurns }
    /\ inflight = << >>
    /\ applied = 0
    /\ last = UiStep
    /\ surface = NoSurface
    /\ areaOfSrc = TRUE

\* The drawing part of getCroppedImg, from the loaded image to the masked
\* output canvas.
RenderOutput ==
    /\ surface = NoSurface
    /\ PreconditionsHold(src, croppedAreaPixels, selectedFile)
    /\ surface' = RenderSurface(impl, ImageWidth(selectedFile),
                                ImageHeight(selectedFile), croppedAreaPixels,
                                rotation, cropShape)
    /\ UNCHANGED <<impl, maxZoom, cropShape, selectedFile, previewImage,
                   cropperOpen, src, crop, zoom, rotation, croppedAreaPixels,
                   inflight, applied, last, areaOfSrc>>

NextRender == RenderOutput

SpecRender == InitRender /\ [][NextRender]_vars

Rendered == surface # NoSurface

\* C7: the output surface is exactly croppedAreaPixels.width wide and
\* croppedAreaPixels.height high, for every image size, rectangle, rotation
\* and shape.
C7_OutputSizeIsCropSize ==
    Rendered =>
        /\ surface.width = croppedAreaPixels.width
        /\ surface.height = croppedAreaPixels.height
        /\ DOMAIN surface.px =
              (0..(croppedAreaPixels.width - 1)) \X (0..(croppedAreaPixels.height - 1))

\* A quarter-turned rendering of a rectangle that is not square and not of
\* the intermediate surface's size.
C7_Witness ==
    /\ Rendered
    /\ rotation \in {90, -90}
    /\ croppedAreaPixels.width # croppedAreaPixels.height
    /\ croppedAreaPixels.width #
          IntermediateSide(ImageWidth(selectedFile), ImageHeight(selectedFile))

\* C8: with rotation 0 and the rectangular shape, for a rectangle inside the
\* source, output pixel (i, j) is source pixel (x + i, y + j) and nothing
\* else.
C8_UnrotatedCropIsExact ==
    ( /\ Rendered
      /\ rotation = 0
      /\ cropShape = "rect"
      /\ croppedAreaPixels.x + croppedAreaPixels.width <= ImageWidth(selectedFile)
      /\ croppedAreaPixels.y + croppedAreaPixels.height <= ImageHeight(selectedFile) )
    => \A c \in DOMAIN surface.px :
          surface.px[c] = { <<croppedAreaPixels.x + c[1], croppedAreaPixels.y + c[2]>> }

\* The corners of pixel (i, j), doubled.
C9_Corners(i, j) == { <<2 * i + dx, 2 * j + dy>> : dx \in {0, 2}, dy \in {0, 2} }

\* The point of pixel (i, j) nearest to the doubled centre <<w, h>>.
C9_Nearest(w, h, i, j) ==
    <<Max(2 * i, Min(w, 2 * i + 2)), Max(2 * j, Min(h, 2 * j + 2))>>

C9_Dist2(p, w, h) == (p[1] - w) * (p[1] - w) + (p[2] - h) * (p[2] - h)

\* Pixel (i, j) lies inside the circle: all of it is within the radius.
C9_Inside(w, h, i, j) ==
    \A p \in C9_Corners(i, j) : C9_Dist2(p, w, h) <= Min(w, h) * Min(w, h)

\* Pixel (i, j) lies outside the circle: none of it is closer than the radius.
C9_Outside(w, h, i, j) ==
    C9_Dist2(C9_Nearest(w, h, i, j), w, h) >= Min(w, h) * Min(w, h)

\* C9: with the round shape, every pixel outside the circle centred at
\* (width/2, height/2) with radius min(width, height)/2 is fully transparent
\* and every pixel inside it is the pixel of the unmasked crop; with the
\* rectangular shape every pixel is the pixel of the unmasked crop.
C9_CircularMask ==
    Rendered =>
        \A c \in DOMAIN surface.px :
            LET unmasked == UnmaskedPixel(impl, ImageWidth(selectedFile),
                              ImageHeight(selectedFile), croppedAreaPixels,
                              Quarter(rotation), c[1], c[2])
                w == croppedAreaPixels.width
                h == croppedAreaPixels.height
            IN  /\ cropShape = "rect" => surface.px[c] = unmasked
                /\ (cropShape = "round" /\ C9_Outside(w, h, c[1], c[2]))
                      => surface.px[c] = {Blank}
                /\ (cropShape = "round" /\ C9_Inside(w, h, c[1], c[2]))
                      => surface.px[c] = unmasked

\* A round rendering with a pixel outside the circle and a pixel inside it
\* that shows the image.
C9_Witness ==
    /\ Rendered
    /\ cropShape = "round"
    /\ \E c \in DOMAIN surface.px :
          /\ C9_Outside(croppedAreaPixels.width, croppedAreaPixels.height, c[1], c[2])
          /\ surface.px[c] = {Blank}
    /\ \E c \in DOMAIN surface.px :
          /\ C9_Inside(croppedAreaPixels.width, croppedAreaPixels.height, c[1], c[2])
          /\ Blank \notin surface.px[c]

(***************************************************************************)
(* Claims about the artifact's format and the pipeline's timing.           *)
(***************************************************************************)

\* C11: for every delivered artifact, the format requested for encoding the
\* output surface and the type of the file wrapper are the same value, the
\* source file's declared type when it is non-empty and "image/jpeg"
\* otherwise, and the wrapper's type is the format the payload's bytes are
\* in.
C11_EncodingMatchesWrapperType ==
    last.kind = "done" =>
        LET call == last.calls[1]
            declared == IF call.trig.file.type # ""
                        THEN call.trig.file.type ELSE "image/jpeg"
        IN  /\ call.requested = declared
            /\ call.arg.file.type = declared
            /\ call.arg.file.type = call.arg.file.bytes.format

\* Where the centre of source pixel (x, y) lands on the intermediate canvas
\* (doubled): rotated about the image centre, which sits at the canvas
\* centre.
C12_Landing(W, H, q, x, y) ==
    LET turned == Rot(q, <<2 * x + 1 - W, 2 * y + 1 - H>>)
        S == IntermediateSide(W, H)
    IN  <<turned[1] + S, turned[2] + S>>

\* C12: the intermediate canvas of ImageCropper.tsx is at least as wide as
\* the image's diagonal, every source pixel lands with its whole extent
\* within [0, side) on both axes under the rotation, and the canvas holds
\* that pixel where it lands.
C12_IntermediateHoldsRotatedImage ==
    (Rendered /\ impl = "rewritten") =>
        LET W == ImageWidth(selectedFile)
            H == ImageHeight(selectedFile)
            S == IntermediateSide(W, H)
            q == Quarter(rotation)
        IN  /\ S * S >= W * W + H * H
            /\ \A x \in 0..(W - 1), y \in 0..(H - 1) :
                  LET c == C12_Landing(W, H, q, x, y)
                  IN  /\ c[1] - 1 >= 0 /\ c[1] + 1 <= 2 * S
                      /\ c[2] - 1 >= 0 /\ c[2] + 1 <= 2 * S
                      /\ \A u \in Overlap(c[1]), v \in Overlap(c[2]) :
                            <<x, y>> \in IntermediatePixel(W, H, q, u, v)

\* A quarter-turned rendering by ImageCropper.tsx of an image that is not
\* square and has an odd width.
C12_Witness ==
    /\ Rendered
    /\ impl = "rewritten"
    /\ rotation \in {90, -90}
    /\ ImageWidth(selectedFile) # ImageHeight(selectedFile)
    /\ ImageWidth(selectedFile) % 2 = 1

\* C13: every Apply that passes its precondition check uses a rectangle that
\* the viewport reported while it showed the source now loaded: no rectangle
\* reported for an earlier file is usable after the file has been replaced.
C13_RectangleIsOfLoadedFile ==
    [][ last'.kind = "started" => areaOfSrc ]_vars

\* C14: onSuccess is called only while the view is open: an Apply whose view
\* was closed while it was suspended delivers nothing and leaves the page's
\* preview and selected file alone.
C14_DeliveredOnlyToOpenView ==
    \A j \in 1..Len(last.calls) :
        last.calls[j].fn = "onSuccess" => last.calls[j].open

=============================================================================
